---- MODULE Spec2Model ----
(***************************************************************************)
(* Model of the Colorfy colour value type (src/src/include/colorfy.py).    *)
(*                                                                         *)
(* A Python str is a sequence of characters, each a string: the character  *)
(* itself when it is below U+0100, its escape "\\uXXXX" (or               *)
(* "\\UXXXXXXXX" above U+FFFF) otherwise; the escape is also read for      *)
(* U+000B, U+0085 and U+00A0.  A Python number                             *)
(* is a record [k, v]: k is its type ("int", "bool", "float", or one of    *)
(* the float specials "nan", "inf", "ninf"; "str" stands for a             *)
(* non-numeric tuple component) and v its value, an integer for int and    *)
(* bool and a count of quarters for float (v = 6 is 1.5).  Products and    *)
(* sums of such floats with channel values are exact in IEEE-754 doubles,  *)
(* so int(x * factor) is computed here without rounding error.  The kind   *)
(* "e308" is the float v * 1e308, v = 1 or -1: finite, but its product     *)
(* with an integer of magnitude 2 or more overflows to an infinity.  The   *)
(* luma of gray() uses the decimal literals 0.299, 0.587 and 0.114, which  *)
(* are not exact; it is computed in binary64 arithmetic, limb by limb.     *)
(***************************************************************************)
EXTENDS Integers, Sequences, FiniteSets, TLC

VARIABLES heap, res

vars == <<heap, res>>

\* A run creates at most MaxObjs Colors.
MaxObjs == 3

----------------------------------------------------------------------------
(* Characters and strings                                                  *)

Str7(c1, c2, c3, c4, c5, c6, c7) == <<c1, c2, c3, c4, c5, c6, c7>>

HexChars == <<"0", "1", "2", "3", "4", "5", "6", "7",
              "8", "9", "A", "B", "C", "D", "E", "F">>

\* The characters int() reads as each decimal digit: the ASCII digit and
\* every Unicode character with that decimal value.
Digit0 ==
    { "0", "\\u0660", "\\u06f0", "\\u07c0", "\\u0966", "\\u09e6", "\\u0a66",
      "\\u0ae6", "\\u0b66", "\\u0be6", "\\u0c66", "\\u0ce6", "\\u0d66",
      "\\u0de6", "\\u0e50", "\\u0ed0", "\\u0f20", "\\u1040", "\\u1090",
      "\\u17e0", "\\u1810", "\\u1946", "\\u19d0", "\\u1a80", "\\u1a90",
      "\\u1b50", "\\u1bb0", "\\u1c40", "\\u1c50", "\\ua620", "\\ua8d0",
      "\\ua900", "\\ua9d0", "\\ua9f0", "\\uaa50", "\\uabf0", "\\uff10",
      "\\U000104a0", "\\U00010d30", "\\U00011066", "\\U000110f0",
      "\\U00011136", "\\U000111d0", "\\U000112f0", "\\U00011450",
      "\\U000114d0", "\\U00011650", "\\U000116c0", "\\U00011730",
      "\\U000118e0", "\\U00011950", "\\U00011c50", "\\U00011d50",
      "\\U00011da0", "\\U00016a60", "\\U00016ac0", "\\U00016b50",
      "\\U0001d7ce", "\\U0001d7d8", "\\U0001d7e2", "\\U0001d7ec",
      "\\U0001d7f6", "\\U0001e140", "\\U0001e2f0", "\\U0001e950",
      "\\U0001fbf0" }

Digit1 ==
    { "1", "\\u0661", "\\u06f1", "\\u07c1", "\\u0967", "\\u09e7", "\\u0a67",
      "\\u0ae7", "\\u0b67", "\\u0be7", "\\u0c67", "\\u0ce7", "\\u0d67",
      "\\u0de7", "\\u0e51", "\\u0ed1", "\\u0f21", "\\u1041", "\\u1091",
      "\\u17e1", "\\u1811", "\\u1947", "\\u19d1", "\\u1a81", "\\u1a91",
      "\\u1b51", "\\u1bb1", "\\u1c41", "\\u1c51", "\\ua621", "\\ua8d1",
      "\\ua901", "\\ua9d1", "\\ua9f1", "\\uaa51", "\\uabf1", "\\uff11",
      "\\U000104a1", "\\U00010d31", "\\U00011067", "\\U000110f1",
      "\\U00011137", "\\U000111d1", "\\U000112f1", "\\U00011451",
      "\\U000114d1", "\\U00011651", "\\U000116c1", "\\U00011731",
      "\\U000118e1", "\\U00011951", "\\U00011c51", "\\U00011d51",
      "\\U00011da1", "\\U00016a61", "\\U00016ac1", "\\U00016b51",
      "\\U0001d7cf", "\\U0001d7d9", "\\U0001d7e3", "\\U0001d7ed",
      "\\U0001d7f7", "\\U0001e141", "\\U0001e2f1", "\\U0001e951",
      "\\U0001fbf1" }

Digit2 ==
    { "2", "\\u0662", "\\u06f2", "\\u07c2", "\\u0968", "\\u09e8", "\\u0a68",
      "\\u0ae8", "\\u0b68", "\\u0be8", "\\u0c68", "\\u0ce8", "\\u0d68",
      "\\u0de8", "\\u0e52", "\\u0ed2", "\\u0f22", "\\u1042", "\\u1092",
      "\\u17e2", "\\u1812", "\\u1948", "\\u19d2", "\\u1a82", "\\u1a92",
      "\\u1b52", "\\u1bb2", "\\u1c42", "\\u1c52", "\\ua622", "\\ua8d2",
      "\\ua902", "\\ua9d2", "\\ua9f2", "\\uaa52", "\\uabf2", "\\uff12",
      "\\U000104a2", "\\U00010d32", "\\U00011068", "\\U000110f2",
      "\\U00011138", "\\U000111d2", "\\U000112f2", "\\U00011452",
      "\\U000114d2", "\\U00011652", "\\U000116c2", "\\U00011732",
      "\\U000118e2", "\\U00011952", "\\U00011c52", "\\U00011d52",
      "\\U00011da2", "\\U00016a62", "\\U00016ac2", "\\U00016b52",
      "\\U0001d7d0", "\\U0001d7da", "\\U0001d7e4", "\\U0001d7ee",
      "\\U0001d7f8", "\\U0001e142", "\\U0001e2f2", "\\U0001e952",
      "\\U0001fbf2" }

Digit3 ==
    { "3", "\\u0663", "\\u06f3", "\\u07c3", "\\u0969", "\\u09e9", "\\u0a69",
      "\\u0ae9", "\\u0b69", "\\u0be9", "\\u0c69", "\\u0ce9", "\\u0d69",
      "\\u0de9", "\\u0e53", "\\u0ed3", "\\u0f23", "\\u1043", "\\u1093",
      "\\u17e3", "\\u1813", "\\u1949", "\\u19d3", "\\u1a83", "\\u1a93",
      "\\u1b53", "\\u1bb3", "\\u1c43", "\\u1c53", "\\ua623", "\\ua8d3",
      "\\ua903", "\\ua9d3", "\\ua9f3", "\\uaa53", "\\uabf3", "\\uff13",
      "\\U000104a3", "\\U00010d33", "\\U00011069", "\\U000110f3",
      "\\U00011139", "\\U000111d3", "\\U000112f3", "\\U00011453",
      "\\U000114d3", "\\U00011653", "\\U000116c3", "\\U00011733",
      "\\U000118e3", "\\U00011953", "\\U00011c53", "\\U00011d53",
      "\\U00011da3", "\\U00016a63", "\\U00016ac3", "\\U00016b53",
      "\\U0001d7d1", "\\U0001d7db", "\\U0001d7e5", "\\U0001d7ef",
      "\\U0001d7f9", "\\U0001e143", "\\U0001e2f3", "\\U0001e953",
      "\\U0001fbf3" }

Digit4 ==
    { "4", "\\u0664", "\\u06f4", "\\u07c4", "\\u096a", "\\u09ea", "\\u0a6a",
      "\\u0aea", "\\u0b6a", "\\u0bea", "\\u0c6a", "\\u0cea", "\\u0d6a",
      "\\u0dea", "\\u0e54", "\\u0ed4", "\\u0f24", "\\u1044", "\\u1094",
      "\\u17e4", "\\u1814", "\\u194a", "\\u19d4", "\\u1a84", "\\u1a94",
      "\\u1b54", "\\u1bb4", "\\u1c44", "\\u1c54", "\\ua624", "\\ua8d4",
      "\\ua904", "\\ua9d4", "\\ua9f4", "\\uaa54", "\\uabf4", "\\uff14",
      "\\U000104a4", "\\U00010d34", "\\U0001106a", "\\U000110f4",
      "\\U0001113a", "\\U000111d4", "\\U000112f4", "\\U00011454",
      "\\U000114d4", "\\U00011654", "\\U000116c4", "\\U00011734",
      "\\U000118e4", "\\U00011954", "\\U00011c54", "\\U00011d54",
      "\\U00011da4", "\\U00016a64", "\\U00016ac4", "\\U00016b54",
      "\\U0001d7d2", "\\U0001d7dc", "\\U0001d7e6", "\\U0001d7f0",
      "\\U0001d7fa", "\\U0001e144", "\\U0001e2f4", "\\U0001e954",
      "\\U0001fbf4" }

Digit5 ==
    { "5", "\\u0665", "\\u06f5", "\\u07c5", "\\u096b", "\\u09eb", "\\u0a6b",
      "\\u0aeb", "\\u0b6b", "\\u0beb", "\\u0c6b", "\\u0ceb", "\\u0d6b",
      "\\u0deb", "\\u0e55", "\\u0ed5", "\\u0f25", "\\u1045", "\\u1095",
      "\\u17e5", "\\u1815", "\\u194b", "\\u19d5", "\\u1a85", "\\u1a95",
      "\\u1b55", "\\u1bb5", "\\u1c45", "\\u1c55", "\\ua625", "\\ua8d5",
      "\\ua905", "\\ua9d5", "\\ua9f5", "\\uaa55", "\\uabf5", "\\uff15",
      "\\U000104a5", "\\U00010d35", "\\U0001106b", "\\U000110f5",
      "\\U0001113b", "\\U000111d5", "\\U000112f5", "\\U00011455",
      "\\U000114d5", "\\U00011655", "\\U000116c5", "\\U00011735",
      "\\U000118e5", "\\U00011955", "\\U00011c55", "\\U00011d55",
      "\\U00011da5", "\\U00016a65", "\\U00016ac5", "\\U00016b55",
      "\\U0001d7d3", "\\U0001d7dd", "\\U0001d7e7", "\\U0001d7f1",
      "\\U0001d7fb", "\\U0001e145", "\\U0001e2f5", "\\U0001e955",
      "\\U0001fbf5" }

Digit6 ==
    { "6", "\\u0666", "\\u06f6", "\\u07c6", "\\u096c", "\\u09ec", "\\u0a6c",
      "\\u0aec", "\\u0b6c", "\\u0bec", "\\u0c6c", "\\u0cec", "\\u0d6c",
      "\\u0dec", "\\u0e56", "\\u0ed6", "\\u0f26", "\\u1046", "\\u1096",
      "\\u17e6", "\\u1816", "\\u194c", "\\u19d6", "\\u1a86", "\\u1a96",
      "\\u1b56", "\\u1bb6", "\\u1c46", "\\u1c56", "\\ua626", "\\ua8d6",
      "\\ua906", "\\ua9d6", "\\ua9f6", "\\uaa56", "\\uabf6", "\\uff16",
      "\\U000104a6", "\\U00010d36", "\\U0001106c", "\\U000110f6",
      "\\U0001113c", "\\U000111d6", "\\U000112f6", "\\U00011456",
      "\\U000114d6", "\\U00011656", "\\U000116c6", "\\U00011736",
      "\\U000118e6", "\\U00011956", "\\U00011c56", "\\U00011d56",
      "\\U00011da6", "\\U00016a66", "\\U00016ac6", "\\U00016b56",
      "\\U0001d7d4", "\\U0001d7de", "\\U0001d7e8", "\\U0001d7f2",
      "\\U0001d7fc", "\\U0001e146", "\\U0001e2f6", "\\U0001e956",
      "\\U0001fbf6" }

Digit7 ==
    { "7", "\\u0667", "\\u06f7", "\\u07c7", "\\u096d", "\\u09ed", "\\u0a6d",
      "\\u0aed", "\\u0b6d", "\\u0bed", "\\u0c6d", "\\u0ced", "\\u0d6d",
      "\\u0ded", "\\u0e57", "\\u0ed7", "\\u0f27", "\\u1047", "\\u1097",
      "\\u17e7", "\\u1817", "\\u194d", "\\u19d7", "\\u1a87", "\\u1a97",
      "\\u1b57", "\\u1bb7", "\\u1c47", "\\u1c57", "\\ua627", "\\ua8d7",
      "\\ua907", "\\ua9d7", "\\ua9f7", "\\uaa57", "\\uabf7", "\\uff17",
      "\\U000104a7", "\\U00010d37", "\\U0001106d", "\\U000110f7",
      "\\U0001113d", "\\U000111d7", "\\U000112f7", "\\U00011457",
      "\\U000114d7", "\\U00011657", "\\U000116c7", "\\U00011737",
      "\\U000118e7", "\\U00011957", "\\U00011c57", "\\U00011d57",
      "\\U00011da7", "\\U00016a67", "\\U00016ac7", "\\U00016b57",
      "\\U0001d7d5", "\\U0001d7df", "\\U0001d7e9", "\\U0001d7f3",
      "\\U0001d7fd", "\\U0001e147", "\\U0001e2f7", "\\U0001e957",
      "\\U0001fbf7" }

Digit8 ==
    { "8", "\\u0668", "\\u06f8", "\\u07c8", "\\u096e", "\\u09ee", "\\u0a6e",
      "\\u0aee", "\\u0b6e", "\\u0bee", "\\u0c6e", "\\u0cee", "\\u0d6e",
      "\\u0dee", "\\u0e58", "\\u0ed8", "\\u0f28", "\\u1048", "\\u1098",
      "\\u17e8", "\\u1818", "\\u194e", "\\u19d8", "\\u1a88", "\\u1a98",
      "\\u1b58", "\\u1bb8", "\\u1c48", "\\u1c58", "\\ua628", "\\ua8d8",
      "\\ua908", "\\ua9d8", "\\ua9f8", "\\uaa58", "\\uabf8", "\\uff18",
      "\\U000104a8", "\\U00010d38", "\\U0001106e", "\\U000110f8",
      "\\U0001113e", "\\U000111d8", "\\U000112f8", "\\U00011458",
      "\\U000114d8", "\\U00011658", "\\U000116c8", "\\U00011738",
      "\\U000118e8", "\\U00011958", "\\U00011c58", "\\U00011d58",
      "\\U00011da8", "\\U00016a68", "\\U00016ac8", "\\U00016b58",
      "\\U0001d7d6", "\\U0001d7e0", "\\U0001d7ea", "\\U0001d7f4",
      "\\U0001d7fe", "\\U0001e148", "\\U0001e2f8", "\\U0001e958",
      "\\U0001fbf8" }

Digit9 ==
    { "9", "\\u0669", "\\u06f9", "\\u07c9", "\\u096f", "\\u09ef", "\\u0a6f",
      "\\u0aef", "\\u0b6f", "\\u0bef", "\\u0c6f", "\\u0cef", "\\u0d6f",
      "\\u0def", "\\u0e59", "\\u0ed9", "\\u0f29", "\\u1049", "\\u1099",
      "\\u17e9", "\\u1819", "\\u194f", "\\u19d9", "\\u1a89", "\\u1a99",
      "\\u1b59", "\\u1bb9", "\\u1c49", "\\u1c59", "\\ua629", "\\ua8d9",
      "\\ua909", "\\ua9d9", "\\ua9f9", "\\uaa59", "\\uabf9", "\\uff19",
      "\\U000104a9", "\\U00010d39", "\\U0001106f", "\\U000110f9",
      "\\U0001113f", "\\U000111d9", "\\U000112f9", "\\U00011459",
      "\\U000114d9", "\\U00011659", "\\U000116c9", "\\U00011739",
      "\\U000118e9", "\\U00011959", "\\U00011c59", "\\U00011d59",
      "\\U00011da9", "\\U00016a69", "\\U00016ac9", "\\U00016b59",
      "\\U0001d7d7", "\\U0001d7e1", "\\U0001d7eb", "\\U0001d7f5",
      "\\U0001d7ff", "\\U0001e149", "\\U0001e2f9", "\\U0001e959",
      "\\U0001fbf9" }

\* Value of a character as a base-16 digit, -1 if it is none.
DigitVal(c) ==
    CASE c \in Digit0 -> 0  [] c \in Digit1 -> 1  [] c \in Digit2 -> 2
      [] c \in Digit3 -> 3  [] c \in Digit4 -> 4  [] c \in Digit5 -> 5
      [] c \in Digit6 -> 6  [] c \in Digit7 -> 7  [] c \in Digit8 -> 8
      [] c \in Digit9 -> 9
      [] c \in {"a", "A"} -> 10  [] c \in {"b", "B"} -> 11
      [] c \in {"c", "C"} -> 12  [] c \in {"d", "D"} -> 13
      [] c \in {"e", "E"} -> 14  [] c \in {"f", "F"} -> 15
      [] OTHER -> -1

\* The whitespace int() skips around a literal: the ASCII whitespace
\* characters, U+0085, U+00A0 and the Unicode space separators.
IsSpace(c) ==
    c \in { " ", "\t", "\n", "\r", "\f", "", "", " ",
            "\\u000b", "\\u0085", "\\u00a0",
            "\\u1680", "\\u2000", "\\u2001", "\\u2002", "\\u2003", "\\u2004",
            "\\u2005", "\\u2006", "\\u2007", "\\u2008", "\\u2009", "\\u200a",
            "\\u2028", "\\u2029", "\\u202f", "\\u205f", "\\u3000" }

RECURSIVE LStripSpace(_)
LStripSpace(s) ==
    IF s # <<>> /\ IsSpace(Head(s)) THEN LStripSpace(Tail(s)) ELSE s

RECURSIVE RStripSpace(_)
RStripSpace(s) ==
    IF s # <<>> /\ IsSpace(s[Len(s)])
    THEN RStripSpace(SubSeq(s, 1, Len(s) - 1)) ELSE s

\* str.lstrip("#")
RECURSIVE LStripHash(_)
LStripHash(s) ==
    IF s # <<>> /\ Head(s) = "#" THEN LStripHash(Tail(s)) ELSE s

\* The digit part of an integer literal: digits, single underscores
\* between digits only.
DigitsOk(t) ==
    /\ t # <<>>
    /\ \A i \in 1..Len(t) : DigitVal(t[i]) >= 0 \/ t[i] = "_"
    /\ DigitVal(t[1]) >= 0
    /\ DigitVal(t[Len(t)]) >= 0
    /\ \A i \in 1..(Len(t) - 1) : ~(t[i] = "_" /\ t[i + 1] = "_")

RECURSIVE DigitsVal(_, _)
DigitsVal(t, acc) ==
    IF t = <<>> THEN acc
    ELSE IF Head(t) = "_" THEN DigitsVal(Tail(t), acc)
    ELSE DigitsVal(Tail(t), 16 * acc + DigitVal(Head(t)))

\* int(s, 16), once whitespace, sign and prefix are gone: d is the digit
\* part, neg tells a minus sign.
ParseDigits(neg, d) ==
    IF DigitsOk(d)
    THEN [ok |-> TRUE,
          v  |-> IF neg THEN 0 - DigitsVal(d, 0) ELSE DigitsVal(d, 0)]
    ELSE [ok |-> FALSE, v |-> 0]

\* One underscore is allowed between the 0x prefix and the digits.
DropUnderscore(w) == IF w # <<>> /\ Head(w) = "_" THEN Tail(w) ELSE w

\* The optional 0x prefix of u, the literal after its sign.
ParsePrefix(neg, u) ==
    IF Len(u) >= 2 /\ u[1] = "0" /\ u[2] \in {"x", "X"}
    THEN ParseDigits(neg, DropUnderscore(SubSeq(u, 3, Len(u))))
    ELSE ParseDigits(neg, u)

\* The optional sign of t, the literal without surrounding whitespace.
ParseSign(t) ==
    IF t # <<>> /\ Head(t) \in {"+", "-"}
    THEN ParsePrefix(Head(t) = "-", Tail(t))
    ELSE ParsePrefix(FALSE, t)

\* int(s, 16): surrounding whitespace stripped, an optional sign, an
\* optional 0x prefix, then digits.
PyInt16(s) == ParseSign(RStripSpace(LStripSpace(s)))

----------------------------------------------------------------------------
(* Errors, as the exception the code raises                                *)

ErrHexLen   == "ValueError: HEX color must be in the format #RRGGBB."
ErrIntLit   == "ValueError: invalid literal for int() with base 16"
ErrRgba     == "ValueError: RGBA values must be integers between 0 and 255."
ErrShape    == "ValueError: Color must be a hex string (#RRGGBB) or an RGBA tuple (r, g, b, a)."
ErrAlpha    == "ValueError: Alpha must be between 0 and 255."
ErrRatio    == "ValueError: Ratio must be between 0 and 1."
ErrNaN      == "ValueError: cannot convert float NaN to integer"
ErrInf      == "OverflowError: cannot convert float infinity to integer"

----------------------------------------------------------------------------
(* Numbers                                                                 *)

I(n)  == [k |-> "int",   v |-> n]
B(n)  == [k |-> "bool",  v |-> n]
F(q)  == [k |-> "float", v |-> q]
E308(s) == [k |-> "e308", v |-> s]
NaN   == [k |-> "nan",   v |-> 0]
PInf  == [k |-> "inf",   v |-> 0]
NInf  == [k |-> "ninf",  v |-> 0]
SComp == [k |-> "str",   v |-> 0]

\* IsInstanceInt with the type test widened to any number.
IsInstanceInt_AnyNumber(c) == c.k \in {"int", "bool", "float"}

\* isinstance(c, int); bool is a subclass of int.
IsInstanceInt(c) == c.k \in {"int", "bool"}

\* A number held exactly, as a count of quarters
Exact(c) == c.k \in {"int", "bool", "float"}

\* The value of an exact number in quarters.
Q(c) == IF c.k = "float" THEN c.v ELSE 4 * c.v

\* 0 <= c <= 255 as Python evaluates it (false for NaN).
In0to255(c) ==
    CASE c.k \in {"int", "bool", "float"} -> 0 <= Q(c) /\ Q(c) <= 4 * 255
      [] OTHER -> FALSE

\* int(x) of a real x = q / 4: truncation toward zero.
TruncQ(q) == IF q >= 0 THEN q \div 4 ELSE 0 - ((0 - q) \div 4)

Min(a, b) == IF a < b THEN a ELSE b
Max(a, b) == IF a > b THEN a ELSE b

----------------------------------------------------------------------------
(* Construction                                                            *)

StrIn(s)    == [shape |-> "str",   chars |-> s,    comps |-> <<>>]
TupleIn(t)  == [shape |-> "tuple", chars |-> <<>>, comps |-> t]
ListIn(t)   == [shape |-> "list",  chars |-> <<>>, comps |-> t]
IntIn(n)    == [shape |-> "int",   chars |-> <<>>, comps |-> <<I(n)>>]
NoneIn      == [shape |-> "none",  chars |-> <<>>, comps |-> <<>>]

Fail(e)     == [ok |-> FALSE, err |-> e,  obj |-> <<>>]
Done(o)     == [ok |-> TRUE,  err |-> "", obj |-> <<o>>]

\* The tuple of the three parsed pairs, or the exception of int().
Pairs(p1, p2, p3) ==
    IF ~(p1.ok /\ p2.ok /\ p3.ok)
    THEN [ok |-> FALSE, err |-> ErrIntLit, rgb |-> <<>>]
    ELSE [ok |-> TRUE, err |-> "", rgb |-> <<p1.v, p2.v, p3.v>>]

\* Colorfy._hex2rgb after lstrip("#")
HexBody(body) ==
    IF Len(body) # 6 THEN [ok |-> FALSE, err |-> ErrHexLen, rgb |-> <<>>]
    ELSE Pairs(PyInt16(SubSeq(body, 1, 2)), PyInt16(SubSeq(body, 3, 4)),
               PyInt16(SubSeq(body, 5, 6)))

\* Colorfy._hex2rgb
_hex2rgb(hex_color) == HexBody(LStripHash(hex_color))

\* "{:02X}" of a value in 0..255
Hex2(v) == <<HexChars[(v \div 16) + 1], HexChars[(v % 16) + 1]>>

\* Colorfy._rgb2hex
_rgb2hex(rgb) == <<"#">> \o Hex2(rgb[1]) \o Hex2(rgb[2]) \o Hex2(rgb[3])

\* The fields of a Color
NewColor(r, g, b, a, hex) ==
    [r |-> r, g |-> g, b |-> b, a |-> a, rgba |-> <<r, g, b, a>>, hex |-> hex]

\* Colorfy.__init__, string branch: h is the outcome of _hex2rgb.
FromHex(color, h) ==
    IF ~h.ok THEN Fail(h.err)
    ELSE Done(NewColor(h.rgb[1], h.rgb[2], h.rgb[3], 255, color))

\* Colorfy.__init__, tuple branch
FromTuple(c) ==
    IF ~(\A i \in 1..4 : IsInstanceInt(c[i]) /\ In0to255(c[i]))
    THEN Fail(ErrRgba)
    ELSE Done(NewColor(c[1].v, c[2].v, c[3].v, c[4].v,
                       _rgb2hex(<<c[1].v, c[2].v, c[3].v>>)))

\* Colorfy.__init__ after the default fields are set (lines 24-36): the
\* fields assigned, or the exception.
InitBranch(color) ==
    IF color.shape = "str" /\ color.chars # <<>> /\ Head(color.chars) = "#"
    THEN FromHex(color.chars, _hex2rgb(color.chars))
    ELSE IF color.shape = "tuple" /\ Len(color.comps) = 4
    THEN FromTuple(color.comps)
    ELSE Fail(ErrShape)

\* The fields lines 20-22 assign before anything else
Default ==
    NewColor(0, 0, 0, 255, <<"#", "0", "0", "0", "0", "0", "0">>)

\* The outcome of __init__: self as the call leaves it.  A raise leaves
\* the defaults behind.
Inited(c) ==
    [ok |-> c.ok, err |-> c.err, obj |-> <<>>,
     self |-> IF c.ok THEN c.obj[1] ELSE Default]

\* Colorfy.__init__ on the object self; every field of self is overwritten.
__init__(self, color) == Inited(InitBranch(color))

\* The value of the expression Colorfy(color): the new object when
\* __init__ returned, none when it raised.
Constructed(o) == IF o.ok THEN Done(o.self) ELSE Fail(o.err)

Colorfy(color) == Constructed(__init__(Default, color))

----------------------------------------------------------------------------
(* binary64 arithmetic for the luma of gray()                              *)
(*                                                                         *)
(* Every double that occurs is a multiple of 2^-56 below 2^8.  Its         *)
(* magnitude is held as <<h, m, l>>, the integer h*2^44 + m*2^22 + l in    *)
(* units of 2^-56; a double is [s, m] with s the sign (1 or -1).           *)

Limb == 4194304

\* The literals 0.299, 0.587 and 0.114 as the doubles nearest to them.
K299 == <<1224, 2952790, 67108>>
K587 == <<2404, 1476395, 33552>>
K114 == <<466, 3959422, 4093641>>

RECURSIVE BitLen(_)
BitLen(n) == IF n = 0 THEN 0 ELSE 1 + BitLen(n \div 2)

RECURSIVE Pow2(_)
Pow2(n) == IF n = 0 THEN 1 ELSE 2 * Pow2(n - 1)

\* Carry the limbs of <<h, m, l>> back below Limb.
Carry(h, m, l) == <<h + (m \div Limb), m % Limb, l>>

Norm(h, m, l) == Carry(h, m + (l \div Limb), l % Limb)

\* Round to nearest, ties to even: quo * p + rem to a multiple of p.
RoundLow(quo, rem, p) ==
    IF 2 * rem > p \/ (2 * rem = p /\ quo % 2 = 1)
    THEN (quo + 1) * p ELSE quo * p

RoundAt(x, p) == Norm(x[1], x[2], RoundLow(x[3] \div p, x[3] % p, p))

\* Round a magnitude to 53 significant bits, ties to even.
Round53(x) ==
    IF BitLen(x[1]) <= 9 THEN x ELSE RoundAt(x, Pow2(BitLen(x[1]) - 9))

MagLess(x, y) ==
    \/ x[1] < y[1]
    \/ x[1] = y[1] /\ x[2] < y[2]
    \/ x[1] = y[1] /\ x[2] = y[2] /\ x[3] < y[3]

MagAdd(x, y) == Norm(x[1] + y[1], x[2] + y[2], x[3] + y[3])

\* x - y for magnitudes with y <= x
MagSub(x, y) ==
    LET bl == IF x[3] < y[3] THEN 1 ELSE 0
        m2 == x[2] - y[2] - bl
        bm == IF m2 < 0 THEN 1 ELSE 0
    IN  <<x[1] - y[1] - bm, m2 + bm * Limb, x[3] - y[3] + bl * Limb>>

\* The double k * n for a literal k and an integer n
FMul(k, n) ==
    LET a == IF n < 0 THEN 0 - n ELSE n
    IN  [s |-> IF n < 0 THEN -1 ELSE 1,
         m |-> Round53(Norm(k[1] * a, k[2] * a, k[3] * a))]

\* The double x + y
FAdd(x, y) ==
    IF x.s = y.s THEN [s |-> x.s, m |-> Round53(MagAdd(x.m, y.m))]
    ELSE IF MagLess(x.m, y.m)
    THEN [s |-> y.s, m |-> Round53(MagSub(y.m, x.m))]
    ELSE [s |-> x.s, m |-> Round53(MagSub(x.m, y.m))]

\* int(x) of a double: truncation toward zero
FInt(x) == x.s * (x.m[1] \div 4096)

\* int(0.299 * r + 0.587 * g + 0.114 * b)
Luma(r, g, b) ==
    FInt(FAdd(FAdd(FMul(K299, r), FMul(K587, g)), FMul(K114, b)))

----------------------------------------------------------------------------
(* Derivation operations.  Each yields the outcome of the call and `self`, *)
(* the receiver as the call leaves it.                                     *)

Ret(c, self)   == [ok |-> c.ok, err |-> c.err, obj |-> c.obj, self |-> self]
Raise(e, self) == [ok |-> FALSE, err |-> e, obj |-> <<>>, self |-> self]

RgbaIn(r, g, b, a) == TupleIn(<<I(r), I(g), I(b), a>>)

\* comp writing the complement into the receiver as well.
InPlace(c, self) == Ret(c, IF c.ok THEN c.obj[1] ELSE self)

comp_InPlace(self) ==
    InPlace(Colorfy(RgbaIn(255 - self.r, 255 - self.g, 255 - self.b,
                           I(self.a))), self)

\* comp resetting alpha to the default instead of carrying it over.
comp_DropsAlpha(self) ==
    Ret(Colorfy(RgbaIn(255 - self.r, 255 - self.g, 255 - self.b, I(255))),
        self)

\* Colorfy.comp
comp(self) ==
    Ret(Colorfy(RgbaIn(255 - self.r, 255 - self.g, 255 - self.b, I(self.a))),
        self)

\* min(255, max(0, v))
Clamp(v) == Min(255, Max(0, v))

\* The outcome of int() on a product that is not finite: 0 times an
\* infinity, and anything times NaN, is NaN.
NotFinite(x, factor) ==
    IF factor.k = "nan" \/ x = 0
    THEN [ok |-> FALSE, err |-> ErrNaN, v |-> 0]
    ELSE [ok |-> FALSE, err |-> ErrInf, v |-> 0]

\* x * 1e308 or x * -1e308: finite for x in -1..1, an infinity beyond.
\* int() of 1e308 is an integer above 255, of -1e308 one below 0.
ScaleE308(x, s) ==
    IF x = 0 THEN [ok |-> TRUE, err |-> "", v |-> 0]
    ELSE IF x \in {-1, 1}
    THEN [ok |-> TRUE, err |-> "", v |-> IF x * s > 0 THEN 255 ELSE 0]
    ELSE [ok |-> FALSE, err |-> ErrInf, v |-> 0]

\* ScaleClamp with the product rounded to the nearest integer.
ScaleClamp_Rounds(x, factor) ==
    CASE Exact(factor) -> [ok |-> TRUE, err |-> "",
                           v |-> Clamp((x * Q(factor) + 2) \div 4)]
      [] factor.k = "e308" -> ScaleE308(x, factor.v)
      [] OTHER -> NotFinite(x, factor)

\* min(255, max(0, int(x * factor))) for a channel x: the clamped integer,
\* or the exception int() raises when the product is NaN or an infinity.
ScaleClamp(x, factor) ==
    CASE Exact(factor) -> [ok |-> TRUE, err |-> "",
                           v |-> Clamp(TruncQ(x * Q(factor)))]
      [] factor.k = "e308" -> ScaleE308(x, factor.v)
      [] OTHER -> NotFinite(x, factor)

\* Colorfy.brighten, once the three products are converted
Brightened(self, nr, ng, nb) ==
    IF ~nr.ok THEN Raise(nr.err, self)
    ELSE IF ~ng.ok THEN Raise(ng.err, self)
    ELSE IF ~nb.ok THEN Raise(nb.err, self)
    ELSE Ret(Colorfy(RgbaIn(nr.v, ng.v, nb.v, I(self.a))), self)

\* Colorfy.brighten
brighten(self, factor) ==
    Brightened(self, ScaleClamp(self.r, factor), ScaleClamp(self.g, factor),
               ScaleClamp(self.b, factor))

\* Colorfy.set_alpha
set_alpha(self, a) ==
    IF ~In0to255(a) THEN Raise(ErrAlpha, self)
    ELSE Ret(Colorfy(RgbaIn(self.r, self.g, self.b, a)), self)

\* 0 <= ratio <= 1 as Python evaluates it
In0to1(ratio) == Exact(ratio) /\ 0 <= Q(ratio) /\ Q(ratio) <= 4

\* Mix with the two weights exchanged.
Mix_Swapped(x, y, ratio) == TruncQ(x * Q(ratio) + y * (4 - Q(ratio)))

\* int(x * (1 - ratio) + y * ratio)
Mix(x, y, ratio) == TruncQ(x * (4 - Q(ratio)) + y * Q(ratio))

\* The outcome of blend; `other` is the argument as the call leaves it.
Ret2(c, self, other) ==
    [ok |-> c.ok, err |-> c.err, obj |-> c.obj, self |-> self,
     other |-> other]

\* Colorfy.blend
blend(self, other, ratio) ==
    IF ~In0to1(ratio) THEN Ret2(Fail(ErrRatio), self, other)
    ELSE Ret2(Colorfy(RgbaIn(Mix(self.r, other.r, ratio),
                             Mix(self.g, other.g, ratio),
                             Mix(self.b, other.b, ratio),
                             I(Mix(self.a, other.a, ratio)))), self, other)

\* Colorfy.gray, with y the luma
Grayed(self, y) == Ret(Colorfy(RgbaIn(y, y, y, I(self.a))), self)

\* Colorfy.gray
gray(self) == Grayed(self, Luma(self.r, self.g, self.b))

\* Colorfy.rand, for the three values random.randint(0, 255) returned
rand(x, y, z) == Colorfy(RgbaIn(x, y, z, I(255)))

----------------------------------------------------------------------------
(* Inputs                                                                  *)

HexInputs ==
    { Str7("#", "A", "1", "B", "2", "C", "3"),
      Str7("#", "a", "1", "b", "2", "c", "3"),
      Str7("#", "-", "1", "0", "0", "0", "0"),
      Str7("#", "\t", "f", "+", "f", "\\u0661", "\\u0662"),
      Str7("#", " ", "f", "0", "0", "0", "0"),
      Str7("#", "Z", "Z", "Z", "Z", "Z", "Z"),
      Str7("#", "0", "x", "0", "0", "0", "0"),
      Str7("#", "1", "_", "0", "0", "0", "0"),
      Str7("F", "F", "F", "F", "F", "F", "F"),
      <<"#", "#", "F", "F", "F", "F", "F", "F">>,
      <<"#", "F", "F", "F", "F", "F", "F", "F">>,
      <<"#", "F", "F", "F">>,
      <<"#">>,
      <<>> }

TupleInputs ==
    { <<I(128), I(128), I(128), I(255)>>,
      <<I(100), I(100), I(100), I(255)>>,
      <<I(1), I(3), I(5), I(7)>>,
      <<B(1), I(0), I(0), I(0)>>,
      <<I(1), I(2), I(3)>>,
      <<I(1), I(2), I(3), I(4), I(5)>>,
      <<>>,
      <<I(256), I(0), I(0), I(0)>>,
      <<I(0), I(0), I(0), I(-1)>>,
      <<I(0), F(4), I(0), I(0)>>,
      <<I(0), I(0), SComp, I(0)>> }

Inputs ==
    { StrIn(s) : s \in HexInputs } \cup { TupleIn(t) : t \in TupleInputs }
    \cup { ListIn(<<I(1), I(2), I(3), I(4)>>), IntIn(255), NoneIn }

Factors == { I(0), I(10), F(6), F(-2), E308(1), E308(-1), NaN, PInf, NInf }

Alphas  == { I(-1), I(0), I(255), I(256), F(2) }

Ratios  == { F(0), F(4), I(1), F(2), F(-1), F(5) }

\* The values random.randint(0, 255) returns
RandRange == 0..255

\* The three draws of one rand() call: any triple of values of RandRange
RandDraws == RandRange \X RandRange \X RandRange

\* The arguments of an explicit c.__init__(color) on an existing Color
ReinitInputs ==
    { StrIn(Str7("#", "Z", "Z", "Z", "Z", "Z", "Z")),
      TupleIn(<<I(1), I(2), I(3)>>),
      TupleIn(<<I(100), I(100), I(100), I(255)>>) }

----------------------------------------------------------------------------
(* The program: the Colors the caller holds and the last call              *)

NoCall ==
    [op |-> "none", recv |-> 0, other |-> 0, arg |-> I(0), input |-> NoneIn,
     ok |-> TRUE, err |-> "", ret |-> <<>>, kept |-> 0]

Init ==
    /\ heap = <<>>
    /\ res = NoCall

\* The program makes its next call while no call has raised (an exception
\* is not caught: it ends the run) and fewer than MaxObjs Colors exist.
Running == res.ok /\ Len(heap) < MaxObjs

\* The heap once a call that returned `obj` (<<>> when it raised) is over,
\* and the place of the new Color in it (0 when there is none).
Keep(h, obj) == IF obj # <<>> THEN Append(h, obj[1]) ELSE h

Kept(h, obj) == IF obj # <<>> THEN Len(h) + 1 ELSE 0

\* A call is over: h is the heap as the call left the Colors that existed,
\* out its outcome.
Deliver(op, i, j, arg, input, out, h) ==
    /\ Running
    /\ heap' = Keep(h, out.obj)
    /\ res' = [op |-> op, recv |-> i, other |-> j, arg |-> arg,
               input |-> input, ok |-> out.ok, err |-> out.err,
               ret |-> out.obj, kept |-> Kept(h, out.obj)]

\* A method call on heap[i]
Method(op, i, arg, out) ==
    Deliver(op, i, 0, arg, NoneIn, out, [heap EXCEPT ![i] = out.self])

Construct(color) ==
    Deliver("Colorfy", 0, 0, I(0), color, Colorfy(color), heap)

Comp(i) == Method("comp", i, I(0), comp(heap[i]))

Brighten(i, factor) ==
    Method("brighten", i, factor, brighten(heap[i], factor))

SetAlpha(i, a) == Method("set_alpha", i, a, set_alpha(heap[i], a))

BlendCall(i, j, ratio, out) ==
    Deliver("blend", i, j, ratio, NoneIn, out,
            [heap EXCEPT ![j] = out.other, ![i] = out.self])

Blend(i, j, ratio) == BlendCall(i, j, ratio, blend(heap[i], heap[j], ratio))

Gray(i) == Method("gray", i, I(0), gray(heap[i]))

\* c.__init__(color) on the existing Color heap[i]
Reinit(i, color) ==
    Deliver("__init__", i, 0, I(0), color, __init__(heap[i], color),
            [heap EXCEPT ![i] = __init__(heap[i], color).self])

Rand(x, y, z) ==
    Deliver("rand", 0, 0, I(0), RgbaIn(x, y, z, I(255)), rand(x, y, z), heap)

\* A constructor or method call whose outcome its arguments determine
Call ==
    \/ \E color \in Inputs : Construct(color)
    \/ \E i \in DOMAIN heap : Comp(i)
    \/ \E i \in DOMAIN heap, factor \in Factors : Brighten(i, factor)
    \/ \E i \in DOMAIN heap, a \in Alphas : SetAlpha(i, a)
    \/ \E i \in DOMAIN heap, j \in DOMAIN heap, ratio \in Ratios :
           Blend(i, j, ratio)
    \/ \E i \in DOMAIN heap : Gray(i)
    \/ \E i \in DOMAIN heap, color \in ReinitInputs : Reinit(i, color)

\* A rand() call with its draws among D
RandCall(D) == \E d \in D : Rand(d[1], d[2], d[3])

Next == Call \/ RandCall(RandDraws)

Spec == Init /\ [][Next]_vars

----------------------------------------------------------------------------
(* Bounded exploration.  rand() has 256^3 outcomes from every state, more  *)
(* than can be enumerated, so the properties below are checked on the      *)
(* behaviours of Spec in which every rand() call draws a triple of         *)
(* DrawsWithin: channels that fall short of 255 by at most RandSlack in    *)
(* total.  Every behaviour of SpecWithin is a behaviour of Spec.           *)

RandSlack == 0

ValsWithin == { v \in RandRange : 255 - v <= RandSlack }

DrawsWithin ==
    { d \in ValsWithin \X ValsWithin \X ValsWithin :
          (255 - d[1]) + (255 - d[2]) + (255 - d[3]) <= RandSlack }

NextWithin == Call \/ RandCall(DrawsWithin)

SpecWithin == Init /\ [][NextWithin]_vars

----------------------------------------------------------------------------
(* Vocabulary of the properties                                            *)

Channels(o) == <<o.r, o.g, o.b, o.a>>

\* A valid Color: every channel in [0, 255].
Valid(o) == \A k \in 1..4 : Channels(o)[k] \in 0..255

UpperHexDigits == {"0", "1", "2", "3", "4", "5", "6", "7", "8", "9",
                   "A", "B", "C", "D", "E", "F"}

AnyHexDigits == UpperHexDigits \cup {"a", "b", "c", "d", "e", "f"}

\* One '#' followed by exactly six hexadecimal digits of either case.
WellFormedHex(s) ==
    /\ Len(s) = 7
    /\ s[1] = "#"
    /\ \A k \in 2..7 : s[k] \in AnyHexDigits

\* The errors construction raises for a malformed argument.
InvalidFormat == {ErrHexLen, ErrIntLit, ErrRgba, ErrShape}

DerivOps == {"comp", "brighten", "set_alpha", "blend", "gray"}

Recv  == heap[res.recv]
Other == heap[res.other]
Got   == res.ret[1]

\* The exact value of a finite number x = q / 4 truncated toward zero, and
\* rounded to the nearest integer (ties to even, as Python's round).
TowardZero(q) == IF q >= 0 THEN q \div 4 ELSE 0 - ((0 - q) \div 4)

Nearest(q) ==
    LET f == q \div 4
        m == q % 4
    IN  IF m < 2 THEN f
        ELSE IF m > 2 THEN f + 1
        ELSE IF f % 2 = 0 THEN f ELSE f + 1

Into0to255(v) == IF v < 0 THEN 0 ELSE IF v > 255 THEN 255 ELSE v

\* The product x * factor is a finite number: factor is neither NaN nor an
\* infinity, and the product does not overflow.
FiniteProduct(x, factor) ==
    \/ Exact(factor)
    \/ factor.k = "e308" /\ x \in -1..1

\* A finite product x * factor truncated toward zero, then clamped
Truncated(x, factor) ==
    IF Exact(factor) THEN Into0to255(TowardZero(x * Q(factor)))
    ELSE IF x * factor.v > 0 THEN 255 ELSE 0

----------------------------------------------------------------------------
(* C1: every Color that exists, however it was constructed or derived,     *)
(* has its four channels r, g, b, a in [0, 255].                           *)
C1_ChannelsInRange == \A i \in DOMAIN heap : Valid(heap[i])

(* C2: the hex view of every Color that exists is '#' followed by r, g, b  *)
(* in that order, each as two uppercase hexadecimal digits.                *)
C2_HexViewIsUpperRGB ==
    \A i \in DOMAIN heap :
        LET o == heap[i]
            rgb == <<o.r, o.g, o.b>>
        IN  /\ Len(o.hex) = 7
            /\ o.hex[1] = "#"
            /\ \A k \in 1..3 :
                   /\ o.hex[2 * k] \in UpperHexDigits
                   /\ o.hex[2 * k + 1] \in UpperHexDigits
                   /\ 16 * DigitVal(o.hex[2 * k]) + DigitVal(o.hex[2 * k + 1])
                        = rgb[k]

(* C3: construction from a string succeeds exactly when the string is one  *)
(* '#' followed by six hexadecimal digits; any other string fails with the *)
(* invalid-format error and yields no Color.                               *)
C3_HexConstruction ==
    (res.op = "Colorfy" /\ res.input.shape = "str") =>
        /\ res.ok <=> WellFormedHex(res.input.chars)
        /\ ~res.ok => (res.err \in InvalidFormat /\ res.ret = <<>>)

(* C4: construction from a non-string argument succeeds exactly when the   *)
(* argument is a tuple of 4 components, each an integer in [0, 255]; every *)
(* other argument fails with the invalid-format error and no Color - in    *)
(* particular none holding the default values - comes into existence.      *)
C4_TupleConstruction ==
    (res.op = "Colorfy" /\ res.input.shape # "str") =>
        LET c == res.input.comps
        IN  /\ res.ok <=>
                 /\ res.input.shape = "tuple"
                 /\ Len(c) = 4
                 /\ \A k \in 1..4 : /\ c[k].k \in {"int", "bool"}
                                    /\ c[k].v \in 0..255
            /\ ~res.ok => /\ res.err \in InvalidFormat
                          /\ res.ret = <<>>
                          /\ res.kept = 0
            /\ res.ok => /\ Channels(Got) = <<c[1].v, c[2].v, c[3].v, c[4].v>>
                         /\ heap[res.kept] = Got

C4_Witness ==
    /\ res.op = "Colorfy"
    /\ res.input.shape = "tuple"
    /\ Len(res.input.comps) = 4
    /\ \E k \in 1..4 : res.input.comps[k] = I(256)
    /\ ~res.ok
    /\ Len(heap) >= 1

(* C5: a call of complement, brighten, set_alpha, blend or gray, whether   *)
(* it returns or raises, leaves every Color that existed before it (the    *)
(* receiver and blend's other argument among them) with the same r, g, b,  *)
(* a, rgba and hex; when it returns, the result is a new Color, distinct   *)
(* from all that existed.                                                  *)
C5_ReceiverUnchanged ==
    [][res'.op \in DerivOps =>
          /\ \A i \in DOMAIN heap : heap'[i] = heap[i]
          /\ res'.ok => /\ res'.kept \notin DOMAIN heap
                        /\ res'.kept \in DOMAIN heap'
                        /\ heap'[res'.kept] = res'.ret[1]
          /\ ~res'.ok => heap' = heap]_vars

C5_Witness ==
    /\ res.op = "blend"
    /\ res.ok
    /\ res.recv # res.other
    /\ Got # Recv
    /\ Got # Other

(* C6: for a valid Color c, complement returns (255-r, 255-g, 255-b, a),   *)
(* and the complement of that result has the four channels of c.           *)
C6_Complement ==
    (res.op = "comp" /\ Valid(Recv)) =>
        /\ res.ok
        /\ Channels(Got) = <<255 - Recv.r, 255 - Recv.g, 255 - Recv.b, Recv.a>>
        /\ comp(Got).ok
        /\ Channels(comp(Got).obj[1]) = Channels(Recv)

C6_Witness ==
    /\ res.op = "comp"
    /\ res.ok
    /\ Recv.a # 255
    /\ Recv.r # Recv.b

(* every a outside [0, 255]; for every integer a in [0, 255] it returns a  *)
(* Color with the receiver's r, g, b and alpha a.                          *)
C8_SetAlpha ==
    (res.op = "set_alpha" /\ Exact(res.arg)) =>
        /\ (Q(res.arg) < 0 \/ Q(res.arg) > 4 * 255) =>
               (~res.ok /\ res.err = ErrAlpha /\ res.ret = <<>>)
        /\ (res.arg.k = "int" /\ res.arg.v \in 0..255) =>
               /\ res.ok
               /\ Channels(Got) = <<Recv.r, Recv.g, Recv.b, res.arg.v>>

(* C9: for valid Colors A and B, A.blend(B, 0) has the four channels of A  *)
(* and A.blend(B, 1) those of B; a ratio outside [0, 1] raises the         *)
(* out-of-range error.                                                     *)
C9_BlendEndpoints ==
    (res.op = "blend" /\ Valid(Recv) /\ Valid(Other) /\ Exact(res.arg)) =>
        /\ Q(res.arg) = 0 => (res.ok /\ Channels(Got) = Channels(Recv))
        /\ Q(res.arg) = 4 => (res.ok /\ Channels(Got) = Channels(Other))
        /\ (Q(res.arg) < 0 \/ Q(res.arg) > 4) =>
               (~res.ok /\ res.err = ErrRatio /\ res.ret = <<>>)

C9_Witness ==
    /\ res.op = "blend"
    /\ res.ok
    /\ Q(res.arg) = 4
    /\ Channels(Recv) # Channels(Other)
    /\ Recv.a # Other.a
    /\ Channels(Got) = Channels(Other)

(* C10: for a valid Color, gray returns a Color whose r, g, b all equal    *)
(* the luma 0.299r + 0.587g + 0.114b truncated to an integer and whose     *)
(* alpha is the receiver's; so a Color with r = g = b is returned with the *)
(* same channels, and gray of the result is the result.                    *)
C10_Gray ==
    (res.op = "gray" /\ Valid(Recv)) =>
        LET y == (299 * Recv.r + 587 * Recv.g + 114 * Recv.b) \div 1000
        IN  /\ res.ok
            /\ Channels(Got) = <<y, y, y, Recv.a>>
            /\ (Recv.r = Recv.g /\ Recv.g = Recv.b) =>
                   Channels(Got) = Channels(Recv)
            /\ gray(Got).ok
            /\ Channels(gray(Got).obj[1]) = Channels(Got)

====
